---------------------------- MODULE Spec2Model ----------------------------
(***************************************************************************)
(* Recipe parser (lib/recipe-parser): unit registry, quantity parser,      *)
(* ingredient line parser, unit converter, quantity formatter, recipe      *)
(* scaler and instruction parser, as a state machine whose steps are the   *)
(* calls of the exported functions, and the components that mount the      *)
(* RecipeScaler with the events of its servings control.                   *)
(*                                                                         *)
(* Conventions.                                                            *)
(*  - JavaScript strings are TLA+ strings; a character is a string of      *)
(*    length 1.  The bullet U+2022 is written "*" (the module text is      *)
(*    ASCII); "*" stands for nothing else.  The degree sign U+00B0 is      *)
(*    written "^" in the same way.                                         *)
(*  - The numbers of the unit converter are IEEE 754 doubles (see below):  *)
(*    its results depend on how each operation rounds.  The numbers of the *)
(*    parser, the formatter and the scaler are exact rationals <<n, d>> in *)
(*    lowest terms with d > 0 (NaN is <<0, 0>>): what is stated about them *)
(*    does not depend on rounding.                                         *)
(*  - null / undefined results are Null (records), Undefined or NullStr    *)
(*    (strings), so that a value and its absence stay comparable.          *)
(***************************************************************************)
EXTENDS Integers, Sequences, FiniteSets, TLC

VARIABLES pc, input, output

vars == <<pc, input, output>>

-----------------------------------------------------------------------------
(* Strings *)

Ch(s, i) == SubSeq(s, i, i)

Rest(s, i) == SubSeq(s, i, Len(s))

Digits == {"0", "1", "2", "3", "4", "5", "6", "7", "8", "9"}

LowerLetters == "abcdefghijklmnopqrstuvwxyz"

UpperLetters == "ABCDEFGHIJKLMNOPQRSTUVWXYZ"

Letters == {Ch(LowerLetters, i) : i \in 1..26} \cup {Ch(UpperLetters, i) : i \in 1..26}

\* \s of a JavaScript regular expression, and the white space trim() removes
\* (a line holds no "\n": parseIngredients splits on it)
WhiteSpace == {" ", "\t"}

DigitVal(c) == CHOOSE k \in 0..9 : Ch("0123456789", k + 1) = c

DigitChar(k) == Ch("0123456789", k + 1)

\* String.prototype.toLowerCase
LowerCh(c) ==
    IF \E i \in 1..26 : Ch(UpperLetters, i) = c
    THEN Ch(LowerLetters, CHOOSE i \in 1..26 : Ch(UpperLetters, i) = c)
    ELSE c

RECURSIVE toLowerCase(_)
toLowerCase(s) ==
    IF s = "" THEN "" ELSE LowerCh(Ch(s, 1)) \o toLowerCase(Rest(s, 2))

\* String.prototype.trim
trim(s) ==
    LET idx == {i \in 1..Len(s) : Ch(s, i) \notin WhiteSpace}
    IN  IF idx = {} THEN ""
        ELSE SubSeq(s, CHOOSE i \in idx : \A j \in idx : i <= j,
                       CHOOSE i \in idx : \A j \in idx : j <= i)

\* the number of leading characters of s that belong to class
RECURSIVE Span(_, _)
Span(s, class) ==
    IF s # "" /\ Ch(s, 1) \in class THEN 1 + Span(Rest(s, 2), class) ELSE 0

\* String.prototype.split on a one-character separator
RECURSIVE split(_, _)
split(s, sep) ==
    LET hits == {i \in 1..Len(s) : Ch(s, i) = sep}
    IN  IF hits = {} THEN <<s>>
        ELSE LET i == CHOOSE h \in hits : \A k \in hits : h <= k
             IN  <<SubSeq(s, 1, i - 1)>> \o split(Rest(s, i + 1), sep)

\* String.prototype.startsWith
startsWith(s, p) == Len(s) >= Len(p) /\ SubSeq(s, 1, Len(p)) = p

\* Number.prototype.toString of an integer
RECURSIVE NatToString(_)
NatToString(n) ==
    IF n < 10 THEN DigitChar(n) ELSE NatToString(n \div 10) \o DigitChar(n % 10)

IntToString(n) == IF n < 0 THEN "-" \o NatToString(-n) ELSE NatToString(n)

-----------------------------------------------------------------------------
(* Numbers *)

Min(S) == CHOOSE x \in S : \A y \in S : x <= y

Max(S) == CHOOSE x \in S : \A y \in S : y <= x

RECURSIVE Pow10(_)
Pow10(k) == IF k = 0 THEN 1 ELSE 10 * Pow10(k - 1)

NaN == <<0, 0>>

isNaN(x) == x[2] = 0

Abs(n) == IF n < 0 THEN -n ELSE n

RECURSIVE GCD(_, _)
GCD(a, b) == IF b = 0 THEN a ELSE GCD(b, a % b)

\* the rational n/d (d # 0) in lowest terms, d > 0
Rat(n, d) ==
    LET g == GCD(Abs(n), Abs(d))
        s == IF d < 0 THEN -1 ELSE 1
    IN  <<s * (n \div g), s * (d \div g)>>

Num(n) == <<n, 1>>

RAdd(a, b) ==
    LET g == GCD(a[2], b[2])
    IN  Rat(a[1] * (b[2] \div g) + b[1] * (a[2] \div g), (a[2] \div g) * b[2])

RNeg(a) == <<-a[1], a[2]>>

RSub(a, b) == RAdd(a, RNeg(b))

\* cross-cancelled before multiplying, to keep the products small
RMul(a, b) ==
    IF a[1] = 0 \/ b[1] = 0 THEN <<0, 1>>
    ELSE LET g1 == GCD(Abs(a[1]), b[2])
             g2 == GCD(Abs(b[1]), a[2])
         IN  <<(a[1] \div g1) * (b[1] \div g2), (a[2] \div g2) * (b[2] \div g1)>>

\* a / b, b # 0
RDiv(a, b) == RMul(a, IF b[1] < 0 THEN <<-b[2], -b[1]>> ELSE <<b[2], b[1]>>)

RLess(a, b) == RSub(a, b)[1] < 0

RAbs(a) == <<Abs(a[1]), a[2]>>

\* Math.floor
Floor(a) == a[1] \div a[2]

\* Math.round: the nearest integer, halves rounded up
Round(a) == (2 * a[1] + a[2]) \div (2 * a[2])

\* quantity % 1 === 0
IsWhole(a) == a[2] = 1

-----------------------------------------------------------------------------
(* IEEE 754 binary64 arithmetic, for the unit converter, whose results       *)
(* depend on the rounding of each multiplication and division.  A natural    *)
(* number is its sequence of limbs in base 2^14, least significant first,    *)
(* without leading zero limbs.  A positive double is [m, e]: the value       *)
(* m * 2^e with 2^52 <= m < 2^53.  Zero, infinities, NaN, negative numbers   *)
(* and subnormals do not arise for the quantities and multipliers used.      *)

LimbBits == 14

RECURSIVE Pow2(_)
Pow2(k) == IF k = 0 THEN 1 ELSE 2 * Pow2(k - 1)

LimbBase == Pow2(LimbBits)

RECURSIVE BTrim(_)
BTrim(x) ==
    IF x # <<>> /\ x[Len(x)] = 0 THEN BTrim(SubSeq(x, 1, Len(x) - 1)) ELSE x

RECURSIVE BFromInt(_)
BFromInt(n) == IF n = 0 THEN <<>> ELSE <<n % LimbBase>> \o BFromInt(n \div LimbBase)

Limb(x, i) == IF i <= Len(x) THEN x[i] ELSE 0

RECURSIVE BAddC(_, _, _)
BAddC(x, y, carry) ==
    IF x = <<>> /\ y = <<>> THEN (IF carry = 0 THEN <<>> ELSE <<carry>>)
    ELSE LET t == Limb(x, 1) + Limb(y, 1) + carry
         IN  <<t % LimbBase>> \o BAddC(Rest(x, 2), Rest(y, 2), t \div LimbBase)

BAdd(x, y) == BAddC(x, y, 0)

\* x - y, for x >= y
RECURSIVE BSubB(_, _, _)
BSubB(x, y, borrow) ==
    IF x = <<>> THEN <<>>
    ELSE LET t == Limb(x, 1) - Limb(y, 1) - borrow
         IN  <<t % LimbBase>> \o BSubB(Rest(x, 2), Rest(y, 2), IF t < 0 THEN 1 ELSE 0)

BSub(x, y) == BTrim(BSubB(x, y, 0))

BLess(x, y) ==
    IF Len(x) # Len(y) THEN Len(x) < Len(y)
    ELSE LET diff == {i \in 1..Len(x) : x[i] # y[i]}
         IN  diff # {} /\ x[Max(diff)] < y[Max(diff)]

\* x * k, for 0 <= k < 2^14
RECURSIVE BMulC(_, _, _)
BMulC(x, k, carry) ==
    IF x = <<>> THEN (IF carry = 0 THEN <<>> ELSE <<carry>>)
    ELSE LET t == x[1] * k + carry
         IN  <<t % LimbBase>> \o BMulC(Rest(x, 2), k, t \div LimbBase)

BMulSmall(x, k) == BTrim(BMulC(x, k, 0))

RECURSIVE BMul(_, _)
BMul(x, y) ==
    IF y = <<>> \/ x = <<>> THEN <<>>
    ELSE BAdd(BMulSmall(x, y[1]),
              LET hi == BMul(x, Rest(y, 2)) IN IF hi = <<>> THEN <<>> ELSE <<0>> \o hi)

\* the number of bits of x
BBitLen(x) ==
    IF x = <<>> THEN 0
    ELSE LimbBits * (Len(x) - 1) + Min({k \in 1..LimbBits : x[Len(x)] < Pow2(k)})

\* bit i of x, bit 0 the least significant
BBit(x, i) == (Limb(x, (i \div LimbBits) + 1) \div Pow2(i % LimbBits)) % 2

\* x * 2^s
BShl(x, s) ==
    IF x = <<>> THEN <<>>
    ELSE [i \in 1..(s \div LimbBits) |-> 0] \o BMulSmall(x, Pow2(s % LimbBits))

\* floor(x / 2^s)
BShr(x, s) ==
    LET y == Rest(x, (s \div LimbBits) + 1)
        r == s % LimbBits
    IN  BTrim([i \in 1..Len(y) |->
                 (y[i] \div Pow2(r)) + (Limb(y, i + 1) % Pow2(r)) * Pow2(LimbBits - r)])

\* the largest k below 2^(b+1) + k0 with d * k <= r, found one bit at a time
RECURSIVE quotientDigit(_, _, _, _)
quotientDigit(r, d, b, k) ==
    IF b < 0 THEN k
    ELSE IF BLess(r, BMulSmall(d, k + Pow2(b))) THEN quotientDigit(r, d, b - 1, k)
    ELSE quotientDigit(r, d, b - 1, k + Pow2(b))

\* long division, one limb of x at a time from limb i down: <<quotient, remainder>>
RECURSIVE BDivLimbs(_, _, _, _, _)
BDivLimbs(x, d, i, q, r) ==
    IF i < 1 THEN <<BTrim(q), r>>
    ELSE LET r2 == BTrim(<<x[i]>> \o r)
             k  == quotientDigit(r2, d, LimbBits - 1, 0)
         IN  BDivLimbs(x, d, i - 1, <<k>> \o q, BSub(r2, BMulSmall(d, k)))

BDivMod(x, d) == BDivLimbs(x, d, Len(x), <<>>, <<>>)

MantissaBits == 53

\* the double nearest to n * 2^e (+ a positive amount below one unit of n when
\* sticky), ties to the even mantissa; n has more than MantissaBits bits
roundToDouble(n, sticky, e) ==
    LET t    == BBitLen(n) - MantissaBits
        q    == BShr(n, t)
        rem  == BSub(n, BShl(q, t))
        half == BShl(<<1>>, t - 1)
        up   == \/ BLess(half, rem)
                \/ rem = half /\ (sticky \/ BBit(q, 0) = 1)
        m    == IF up THEN BAdd(q, <<1>>) ELSE q
    IN  IF BBitLen(m) > MantissaBits THEN [m |-> BShr(m, 1), e |-> e + t + 1]
        ELSE [m |-> m, e |-> e + t]

\* the double of a positive integer below 2^31 (exact)
fromInt(n) ==
    LET b == BFromInt(n)
    IN  [m |-> BShl(b, MantissaBits - BBitLen(b)), e |-> BBitLen(b) - MantissaBits]

\* whether d is a double as modelled here: positive, with a full mantissa
isDouble(d) == BBitLen(d.m) = MantissaBits

\* what an operation on anything else gives
NoDouble == [m |-> <<>>, e |-> 0]

\* a * b in binary64
fmul(a, b) ==
    IF isDouble(a) /\ isDouble(b)
    THEN roundToDouble(BMul(a.m, b.m), FALSE, a.e + b.e)
    ELSE NoDouble

\* a / b in binary64
fdiv(a, b) ==
    LET round(qr) == roundToDouble(qr[1], qr[2] # <<>>, a.e - b.e - (MantissaBits + 1))
    IN  IF isDouble(a) /\ isDouble(b)
        THEN round(BDivMod(BShl(a.m, MantissaBits + 1), b.m))
        ELSE NoDouble

\* the double a decimal literal denotes: digits / 10^places
literal(digits, places) ==
    IF places = 0 THEN fromInt(digits) ELSE fdiv(fromInt(digits), fromInt(Pow10(places)))

-----------------------------------------------------------------------------
(* Absent values *)

Null == [null |-> TRUE]

NullStr == "<null>"

Undefined == "<undefined>"

-----------------------------------------------------------------------------
(* Unit registry *)

\* A multiplier is kept as the decimal literal of the source, <<digits, places>>
\* for digits / 10^places; the converter reads it as the double it denotes.
UNIT_CONVERSIONS ==
    << [type |-> "volume", baseUnit |-> "ml",
        conversions |-> ("ml" :> <<1, 0>> @@ "l" :> <<1000, 0>>
                         @@ "tsp" :> <<492892, 5>>
                         @@ "tbsp" :> <<147868, 4>>
                         @@ "cup" :> <<236588, 3>>
                         @@ "fl oz" :> <<295735, 4>>)],
       [type |-> "weight", baseUnit |-> "g",
        conversions |-> ("g" :> <<1, 0>> @@ "kg" :> <<1000, 0>>
                         @@ "oz" :> <<283495, 4>>
                         @@ "lb" :> <<453592, 3>>)],
       [type |-> "count", baseUnit |-> "count",
        conversions |-> ("piece" :> <<1, 0>> @@ "pieces" :> <<1, 0>>
                         @@ "clove" :> <<1, 0>> @@ "cloves" :> <<1, 0>>
                         @@ "egg" :> <<1, 0>> @@ "eggs" :> <<1, 0>>)] >>

UNIT_ALIASES ==
    "teaspoon" :> "tsp" @@ "teaspoons" :> "tsp"
    @@ "tablespoon" :> "tbsp" @@ "tablespoons" :> "tbsp" @@ "tbsps" :> "tbsp"
    @@ "cup" :> "cup" @@ "cups" :> "cup"
    @@ "ounce" :> "oz" @@ "ounces" :> "oz"
    @@ "pound" :> "lb" @@ "pounds" :> "lb"
    @@ "milliliter" :> "ml" @@ "milliliters" :> "ml"
    @@ "liter" :> "l" @@ "liters" :> "l"
    @@ "gram" :> "g" @@ "grams" :> "g"
    @@ "kilogram" :> "kg" @@ "kilograms" :> "kg"
    @@ "fl oz" :> "fl oz" @@ "fluid ounce" :> "fl oz" @@ "fluid ounces" :> "fl oz"

\* The tables are plain object literals, so a property read that misses the
\* object's own keys continues on Object.prototype.  Its one property whose name
\* survives toLowerCase() and consists of letters is "constructor", whose value is
\* the function Object; that value is written here as the string JavaScript
\* turns it into when it is used as a property key.  (The accessor "__proto__",
\* which a caller of convertQuantity could also name, is left out.)
ObjectFunction == "function Object() { [native code] }"

\* obj[key] on a table whose values are strings
GetStr(obj, key) ==
    IF key \in DOMAIN obj THEN obj[key]
    ELSE IF key = "constructor" THEN ObjectFunction
    ELSE Undefined

\* whether obj[key] is truthy, on a table of multipliers (each a non-zero number)
HasTruthy(obj, key) == key \in DOMAIN obj \/ key = "constructor"

\* the groups of UNIT_CONVERSIONS in which conversions[unit] is truthy, in order
GroupsOf(unit) ==
    SelectSeq(UNIT_CONVERSIONS, LAMBDA c : HasTruthy(c.conversions, unit))

normalizeUnit(unitStr) ==
    LET lower == trim(toLowerCase(unitStr))
    IN  IF GetStr(UNIT_ALIASES, lower) \notin {Undefined, ""}
        THEN GetStr(UNIT_ALIASES, lower)
        ELSE IF GroupsOf(lower) # <<>> THEN lower
        ELSE NullStr

getUnitType(unit) ==
    LET first(groups) == IF groups # <<>> THEN groups[1].type ELSE "count"
    IN  first(GroupsOf(unit))

-----------------------------------------------------------------------------
(* Quantity parser *)

\* null where a number is expected
NullNum == <<0, -1>>

\* the value of a string of decimal digits ("" is 0)
RECURSIVE DigitsValue(_)
DigitsValue(s) ==
    IF s = "" THEN 0
    ELSE 10 * DigitsValue(SubSeq(s, 1, Len(s) - 1)) + DigitVal(Ch(s, Len(s)))

\* parseFloat: leading white space skipped, then the longest prefix of the form
\* [+-] digits [. digits] or [+-] . digits (no exponent is modelled); NaN when
\* that prefix holds no digit
parseFloat(str) ==
    LET value(s, ni, nf) ==
            IF ni = 0 /\ nf = 0 THEN NaN
            ELSE RAdd(Num(DigitsValue(SubSeq(s, 1, ni))),
                      Rat(DigitsValue(SubSeq(s, ni + 2, ni + 1 + nf)), Pow10(nf)))
        fraction(s, ni) ==
            value(s, ni, IF Len(s) > ni /\ Ch(s, ni + 1) = "."
                         THEN Span(Rest(s, ni + 2), Digits) ELSE 0)
        unsigned(s) == fraction(s, Span(s, Digits))
        signed(s0) ==
            IF s0 # "" /\ Ch(s0, 1) = "-" THEN RNeg(unsigned(Rest(s0, 2)))
            ELSE IF s0 # "" /\ Ch(s0, 1) = "+" THEN unsigned(Rest(s0, 2))
            ELSE unsigned(s0)
    IN  signed(Rest(str, Span(str, WhiteSpace) + 1))

\* String.prototype.split(/\s+/)
RECURSIVE splitWs(_)
splitWs(s) ==
    LET hits == {i \in 1..Len(s) : Ch(s, i) \in WhiteSpace}
    IN  IF hits = {} THEN <<s>>
        ELSE LET i == CHOOSE h \in hits : \A k \in hits : h <= k
                 n == Span(Rest(s, i), WhiteSpace)
             IN  <<SubSeq(s, 1, i - 1)>> \o splitWs(Rest(s, i + n))

\* the value one part of a quantity adds to the total; NullNum for `return null`
PartValue(part) ==
    LET orNaN(str) == IF str # "" THEN parseFloat(str) ELSE NaN
        ratio(numerator, denominator) ==
            IF isNaN(numerator) \/ isNaN(denominator) \/ denominator[1] = 0
            THEN NullNum
            ELSE RDiv(numerator, denominator)
        fraction(fractionParts) == ratio(orNaN(fractionParts[1]), orNaN(fractionParts[2]))
        number(num) == IF isNaN(num) THEN NullNum ELSE num
    IN  IF \E i \in 1..Len(part) : Ch(part, i) = "/"
        THEN fraction(split(part, "/"))
        ELSE number(parseFloat(part))

\* the loop over the parts, given the value of each: the total, or NullNum once
\* a part returns null
RECURSIVE SumParts(_, _)
SumParts(values, total) ==
    IF values = <<>> THEN total
    ELSE IF Head(values) = NullNum THEN NullNum
    ELSE SumParts(Tail(values), RAdd(total, Head(values)))

parseQuantity(quantityStr) ==
    LET values(parts) == [i \in 1..Len(parts) |-> PartValue(parts[i])]
        result(total) == IF total # NullNum /\ total[1] > 0 THEN total ELSE NullNum
    IN  result(SumParts(values(splitWs(quantityStr)), Num(0)))

-----------------------------------------------------------------------------
(* Ingredient line parser *)

\* trimmed.replace(/^[-*]\s*/, '')
stripBullet(trimmed) ==
    IF trimmed # "" /\ Ch(trimmed, 1) \in {"-", "*"}
    THEN Rest(trimmed, 2 + Span(Rest(trimmed, 2), WhiteSpace))
    ELSE trimmed

\* the notes pattern without its anchor: the first parenthesised group, wherever
\* it stands
notesMatchIndex_Anywhere(cleaned) ==
    LET hits == {i \in 1..Len(cleaned) :
                   /\ Ch(cleaned, i) = "("
                   /\ \E j \in (i + 2)..Len(cleaned) : Ch(cleaned, j) = ")"}
    IN  IF hits = {} THEN 0 ELSE Min(hits)

\* cleaned.match(/\(([^)]+)\)$/): the index of the leftmost "(" from which a
\* non-empty run free of ")" reaches the final ")"; 0 when there is no match
notesMatchIndex(cleaned) ==
    LET n    == Len(cleaned)
        hits == {i \in 1..n : /\ Ch(cleaned, i) = "("
                              /\ Ch(cleaned, n) = ")"
                              /\ n - i - 1 >= 1
                              /\ \A j \in (i + 1)..(n - 1) : Ch(cleaned, j) # ")"}
    IN  IF hits = {} THEN 0 ELSE Min(hits)

\* \d+\/\d+ at the start of s: the length matched with both digit runs as long
\* as possible, 0 when there is none
fractionLen(s) ==
    LET d1 == Span(s, Digits)
        d2 == Span(Rest(s, d1 + 2), Digits)
    IN  IF d1 >= 1 /\ Len(s) > d1 /\ Ch(s, d1 + 1) = "/" /\ d2 >= 1
        THEN d1 + 1 + d2 ELSE 0

\* The ends of group 1, ([\d.]+(?:\s+\d+\/\d+)?|\d+\/\d+), in the order the
\* matcher tries them: the whole run of digits and dots with a fraction, that run
\* alone, then a bare fraction.  Shorter runs are never followed by the white
\* space the pattern needs next, so they are left out.
quantityEnds(t) ==
    LET r  == Span(t, Digits \cup {"."})
        w  == Span(Rest(t, r + 1), WhiteSpace)
        f  == fractionLen(Rest(t, r + w + 1))
        b  == fractionLen(t)
    IN  (IF r >= 1 /\ w >= 1 /\ f >= 1 THEN <<r + w + f>> ELSE <<>>)
        \o (IF r >= 1 THEN <<r>> ELSE <<>>)
        \o (IF b >= 1 THEN <<b>> ELSE <<>>)

\* (?:\s+(.+))?$ on v: [ok, g3], g3 = Undefined when the group did not take part
restMatch(v) ==
    LET w == Span(v, WhiteSpace)
    IN  IF w >= 1 /\ Len(v) > w THEN [ok |-> TRUE, g3 |-> Rest(v, w + 1)]
        ELSE IF w >= 2 THEN [ok |-> TRUE, g3 |-> Rest(v, w)]
        ELSE IF v = "" THEN [ok |-> TRUE, g3 |-> Undefined]
        ELSE [ok |-> FALSE, g3 |-> Undefined]

\* \s+([a-z\s]+?)(?:\s+(.+))?$ (case-insensitive) on u, the text after group 1:
\* the separator as long as possible, then group 2 as short as possible
unitMatch(u) ==
    LET W    == Span(u, WhiteSpace)
        ks(w) == {k \in 1..(Len(u) - w) :
                    /\ \A j \in (w + 1)..(w + k) : Ch(u, j) \in Letters \cup WhiteSpace
                    /\ restMatch(Rest(u, w + k + 1)).ok}
        ws   == {w \in 1..W : ks(w) # {}}
    IN  IF ws = {} THEN [ok |-> FALSE, g2 |-> "", g3 |-> Undefined]
        ELSE LET w == Max(ws)
                 k == Min(ks(w))
             IN  [ok |-> TRUE, g2 |-> SubSeq(u, w + 1, w + k),
                  g3 |-> restMatch(Rest(u, w + k + 1)).g3]

\* textWithoutNotes.match(...): the groups of the first end of group 1 after
\* which the rest of the pattern matches
quantityMatch(t) ==
    LET ends == SelectSeq(quantityEnds(t), LAMBDA e : unitMatch(Rest(t, e + 1)).ok)
    IN  IF ends = <<>> THEN [ok |-> FALSE, g1 |-> "", g2 |-> "", g3 |-> Undefined]
        ELSE LET e == Head(ends)
                 m == unitMatch(Rest(t, e + 1))
             IN  [ok |-> TRUE, g1 |-> SubSeq(t, 1, e), g2 |-> m.g2, g3 |-> m.g3]

\* the steps of the function are local operators, last step first, each taking
\* the values the steps before it have computed
parseIngredientLine(line) ==
    LET build(trimmed, notes, unitStr, g3, quantity, normalizedUnit) ==
            IF quantity = NullNum THEN Null
            ELSE IF normalizedUnit \in {NullStr, ""} THEN Null
            ELSE [original |-> trimmed, quantity |-> quantity,
                  unit |-> normalizedUnit, unitType |-> getUnitType(normalizedUnit),
                  ingredient |-> IF g3 # Undefined /\ trim(g3) # "" THEN trim(g3)
                                 ELSE unitStr,
                  notes |-> notes]
        withUnit(trimmed, notes, m, unitStr) ==
            build(trimmed, notes, unitStr, m.g3, parseQuantity(m.g1),
                  normalizeUnit(unitStr))
        matched(trimmed, notes, m) ==
            IF ~m.ok THEN Null
            ELSE withUnit(trimmed, notes, m, trim(m.g2))
        noted(trimmed, cleaned, ni) ==
            matched(trimmed,
                    IF ni > 0 THEN SubSeq(cleaned, ni + 1, Len(cleaned) - 1)
                    ELSE Undefined,
                    quantityMatch(IF ni > 0 THEN trim(SubSeq(cleaned, 1, ni - 1))
                                  ELSE cleaned))
        stripped(trimmed, cleaned) == noted(trimmed, cleaned, notesMatchIndex(cleaned))
        start(trimmed) == stripped(trimmed, trim(stripBullet(trimmed)))
    IN  start(trim(line))

\* the loop body of parseIngredients over the lines, in order
RECURSIVE parseLines(_)
parseLines(lines) ==
    LET push(skip, parsed) == IF ~skip /\ parsed # Null THEN <<parsed>> ELSE <<>>
        body(line, trimmed) ==
            push(trimmed = "" \/ startsWith(trimmed, "#"), parseIngredientLine(line))
    IN  IF lines = <<>> THEN <<>>
        ELSE body(Head(lines), trim(Head(lines))) \o parseLines(Tail(lines))

\* parseIngredients returning after its first line
parseIngredients_FirstLine(text) == parseLines(<<Head(split(text, "\n"))>>)

parseIngredients(text) == parseLines(split(text, "\n"))

-----------------------------------------------------------------------------
(* Unit converter *)

\* the group the loop of convertQuantity leaves in fromGroup / toGroup: the last
\* one whose table holds the unit, Null when none does
groupOf(unit) ==
    LET last(groups) == IF groups = <<>> THEN Null ELSE groups[Len(groups)]
    IN  last(GroupsOf(unit))

\* the multiplier read as though the table had no entry
multiplier_One(group, unit) == fromInt(1)

\* group.conversions[unit] ?? 1
multiplier(group, unit) ==
    LET read(m) == literal(m[1], m[2])
    IN  read(IF unit \in DOMAIN group.conversions THEN group.conversions[unit]
             ELSE <<1, 0>>)

\* the steps of the function are local operators, last step first
convertQuantity(quantity, fromUnit, toUnit) ==
    LET result(normalizedTo, fromGroup, baseQuantity, fromBaseMultiplier) ==
            [quantity |-> fdiv(baseQuantity, fromBaseMultiplier),
             unit |-> normalizedTo,
             baseQuantity |-> baseQuantity, baseUnit |-> fromGroup.baseUnit]
        found(normalizedFrom, normalizedTo, fromGroup, toGroup) ==
            IF fromGroup = Null \/ toGroup = Null THEN Null
            ELSE IF fromGroup.baseUnit # toGroup.baseUnit THEN Null
            ELSE result(normalizedTo, fromGroup,
                        fmul(quantity, multiplier(fromGroup, normalizedFrom)),
                        multiplier(toGroup, normalizedTo))
        normalized(normalizedFrom, normalizedTo) ==
            IF normalizedFrom \in {NullStr, ""} \/ normalizedTo \in {NullStr, ""}
            THEN Null
            ELSE found(normalizedFrom, normalizedTo, groupOf(normalizedFrom),
                       groupOf(normalizedTo))
    IN  normalized(normalizeUnit(fromUnit), normalizeUnit(toUnit))

-----------------------------------------------------------------------------
(* Quantity formatter *)

maxDenominator == 16

\* the loop of closestFraction with error <= bestError as its test: among equal
\* errors the last denominator is kept
RECURSIVE fractionLoop_LastOfEqual(_, _, _)
fractionLoop_LastOfEqual(best, remainder, denominator) ==
    IF denominator > maxDenominator THEN best
    ELSE LET numerator == Round(RMul(remainder, Num(denominator)))
             value     == Rat(numerator, denominator)
             error     == RAbs(RSub(value, remainder))
         IN  IF ~RLess(best.error, error)
             THEN fractionLoop_LastOfEqual([numerator |-> numerator,
                                            denominator |-> denominator,
                                            error |-> error], remainder, denominator + 1)
             ELSE fractionLoop_LastOfEqual(best, remainder, denominator + 1)

\* the loop of closestFraction from `denominator` on; best holds bestNumerator,
\* bestDenominator and bestError
RECURSIVE fractionLoop(_, _, _)
fractionLoop(best, remainder, denominator) ==
    IF denominator > maxDenominator THEN best
    ELSE LET numerator == Round(RMul(remainder, Num(denominator)))
             value     == Rat(numerator, denominator)
             error     == RAbs(RSub(value, remainder))
         IN  IF RLess(error, best.error)
             THEN fractionLoop([numerator |-> numerator, denominator |-> denominator,
                                error |-> error], remainder, denominator + 1)
             ELSE fractionLoop(best, remainder, denominator + 1)

closestFraction(decimal) ==
    LET whole     == Floor(decimal)
        remainder == RSub(decimal, Num(whole))
        best      == fractionLoop([numerator |-> 0, denominator |-> 1, error |-> Num(1)],
                                  remainder, 1)
    IN  IF best.numerator = best.denominator
        THEN [whole |-> whole + 1, numerator |-> 1, denominator |-> 1, error |-> Num(0)]
        ELSE [whole |-> whole, numerator |-> best.numerator,
              denominator |-> best.denominator, error |-> best.error]

\* Number.prototype.toFixed(2)
toFixed2(x) ==
    LET n == Round(RMul(RAbs(x), Num(100)))
    IN  (IF x[1] < 0 THEN "-" ELSE "") \o NatToString(n \div 100) \o "."
        \o DigitChar((n \div 10) % 10) \o DigitChar(n % 10)

\* formatQuantity going to the two-decimal string at once
formatQuantity_Fixed(quantity) == toFixed2(quantity)

formatQuantity(quantity) ==
    IF IsWhole(quantity) THEN IntToString(quantity[1])
    ELSE LET fractionMatch == closestFraction(quantity)
         IN  IF RLess(fractionMatch.error, Rat(1, 100))
             THEN IF fractionMatch.whole > 0
                  THEN NatToString(fractionMatch.whole) \o " "
                       \o NatToString(fractionMatch.numerator) \o "/"
                       \o NatToString(fractionMatch.denominator)
                  ELSE NatToString(fractionMatch.numerator) \o "/"
                       \o NatToString(fractionMatch.denominator)
             ELSE toFixed2(quantity)

-----------------------------------------------------------------------------
(* Recipe scaler *)

scaleIngredient(ingredient, scaleFactor) ==
    LET scaledQuantity == RMul(ingredient.quantity, scaleFactor)
    IN  ingredient @@ [scaledQuantity |-> scaledQuantity,
                       scaledUnit |-> ingredient.unit,
                       displayQuantity |-> formatQuantity(scaledQuantity)]

\* scaleRecipe with the factor upside down
scaleRecipe_Inverted(ingredients, originalServings, desiredServings) ==
    LET scaleFactor == RDiv(Num(originalServings), Num(desiredServings))
    IN  [i \in 1..Len(ingredients) |-> scaleIngredient(ingredients[i], scaleFactor)]

scaleRecipe(ingredients, originalServings, desiredServings) ==
    LET scaleFactor == RDiv(Num(desiredServings), Num(originalServings))
    IN  [i \in 1..Len(ingredients) |-> scaleIngredient(ingredients[i], scaleFactor)]

-----------------------------------------------------------------------------
(* Instruction parser *)

\* String.prototype.charAt(i - 1): "" beyond the end
charAt(s, i) == IF i \in 1..Len(s) THEN Ch(s, i) ELSE ""

\* String.prototype.substr(at - 1, n): shorter when the string ends before
substr(s, at, n) ==
    IF at + n - 1 <= Len(s) THEN SubSeq(s, at, at + n - 1) ELSE Rest(s, at)

HexDigits == "0123456789abcdef"

IsHexDigit(c) == \E k \in 1..16 : Ch(HexDigits, k) = LowerCh(c)

RECURSIVE HexValue(_)
HexValue(s) ==
    IF s = "" THEN 0
    ELSE 16 * HexValue(SubSeq(s, 1, Len(s) - 1))
         + ((CHOOSE k \in 1..16 : Ch(HexDigits, k) = LowerCh(Ch(s, Len(s)))) - 1)

\* parseInt without radix: leading white space skipped, an optional sign, then
\* the longest prefix of decimal digits, or of hexadecimal digits after "0x" or
\* "0X"; NaN when that prefix holds no digit
parseInt(str) ==
    LET value(digits, sign, hex) ==
            IF digits = "" THEN NaN
            ELSE Num(sign * (IF hex THEN HexValue(digits) ELSE DigitsValue(digits)))
        unsigned(s, sign) ==
            IF Len(s) >= 2 /\ toLowerCase(substr(s, 1, 2)) = "0x"
            THEN value(SubSeq(s, 3, 2 + Span(Rest(s, 3), {c \in Digits \cup Letters : IsHexDigit(c)})),
                       sign, TRUE)
            ELSE value(SubSeq(s, 1, Span(s, Digits)), sign, FALSE)
        signed(s) ==
            IF s # "" /\ Ch(s, 1) = "-" THEN unsigned(Rest(s, 2), -1)
            ELSE IF s # "" /\ Ch(s, 1) = "+" THEN unsigned(Rest(s, 2), 1)
            ELSE unsigned(s, 1)
    IN  signed(Rest(str, Span(str, WhiteSpace) + 1))

\* a failed String.prototype.match
NoMatch == <<>>

\* trimmed.match(/^(\d+)\.\s+(.+)$/): the groups <<digits, text>>.  \s+ takes
\* every white space after the dot, and gives one back when nothing follows.
stepMatch(trimmed) ==
    LET groups(digits, afterDot, gap) ==
            IF gap >= 1 /\ Len(afterDot) > gap THEN <<digits, Rest(afterDot, gap + 1)>>
            ELSE IF gap >= 2 THEN <<digits, Rest(afterDot, gap)>>
            ELSE NoMatch
        dotted(n) ==
            IF n >= 1 /\ charAt(trimmed, n + 1) = "."
            THEN groups(SubSeq(trimmed, 1, n), Rest(trimmed, n + 2),
                        Span(Rest(trimmed, n + 2), WhiteSpace))
            ELSE NoMatch
    IN  dotted(Span(trimmed, Digits))

\* the degree sign U+00B0
Degree == "^"

\* /(\d+)°?([FC])/i tried at position i: the groups <<digits, letter>>
tempMatchAt(text, i) ==
    LET letter(digits, at) ==
            IF charAt(text, at) \in {"F", "C", "f", "c"} THEN <<digits, charAt(text, at)>>
            ELSE NoMatch
        degree(n) ==
            IF n = 0 THEN NoMatch
            ELSE letter(SubSeq(text, i, i + n - 1),
                        IF charAt(text, i + n) = Degree THEN i + n + 1 ELSE i + n)
    IN  degree(Span(Rest(text, i), Digits))

\* instructionText.match(/(\d+)°?([FC])/i): the match that starts leftmost
tempMatch(instructionText) ==
    LET first(starts) ==
            IF starts = {} THEN NoMatch ELSE tempMatchAt(instructionText, Min(starts))
    IN  first({i \in 1..Len(instructionText) :
                 tempMatchAt(instructionText, i) # NoMatch})

\* the alternatives of the unit group, in the order the pattern tries them
TimeUnits == <<"minute", "min", "second", "sec", "hour", "hr">>

\* the unit alternative matched at position at, ignoring case: the text as
\* written, or "" when none matches
unitAt(text, at, units) ==
    LET hits == {k \in 1..Len(units) :
                   toLowerCase(substr(text, at, Len(units[k]))) = units[k]}
    IN  IF hits = {} THEN "" ELSE substr(text, at, Len(units[Min(hits)]))

\* /(\d+(?:\s*-\s*\d+)?)\s*(minute|min|second|sec|hour|hr)s?/i tried at
\* position i: the groups <<number or range, unit>>
timeMatchUsing(text, i, units) ==
    LET unit(end, word) ==
            IF word = "" THEN NoMatch ELSE <<SubSeq(text, i, end - 1), word>>
        spaced(end) ==
            unit(end, unitAt(text, end + Span(Rest(text, end), WhiteSpace), units))
        \* the optional "- <digits>" after the number that ends before at
        upper(at, second, n) ==
            IF n >= 1 THEN spaced(second + n) ELSE spaced(at)
        dash(at, hyphen) ==
            IF charAt(text, hyphen) = "-"
            THEN upper(at, hyphen + 1 + Span(Rest(text, hyphen + 1), WhiteSpace),
                       Span(Rest(text, hyphen + 1 + Span(Rest(text, hyphen + 1), WhiteSpace)),
                            Digits))
            ELSE spaced(at)
        number(n) ==
            IF n = 0 THEN NoMatch
            ELSE dash(i + n, i + n + Span(Rest(text, i + n), WhiteSpace))
    IN  number(Span(Rest(text, i), Digits))

\* the time pattern with the short alternatives first
timeMatchAt_ShortFirst(text, i) ==
    timeMatchUsing(text, i, <<"min", "minute", "sec", "second", "hr", "hour">>)

timeMatchAt(text, i) == timeMatchUsing(text, i, TimeUnits)

\* instructionText.match(...) of the time pattern: the match that starts
\* leftmost
timeMatch(instructionText) ==
    LET first(starts) ==
            IF starts = {} THEN NoMatch ELSE timeMatchAt(instructionText, Min(starts))
    IN  first({i \in 1..Len(instructionText) :
                 timeMatchAt(instructionText, i) # NoMatch})

\* String.prototype.toUpperCase of one letter
UpperCh(c) ==
    IF \E i \in 1..26 : Ch(LowerLetters, i) = c
    THEN Ch(UpperLetters, CHOOSE i \in 1..26 : Ch(LowerLetters, i) = c)
    ELSE c

\* the record pushed for a line whose step pattern matched
instruction(stepMatched) ==
    LET temperature(m) ==
            IF m = NoMatch THEN Null
            ELSE [value |-> parseInt(m[1]), unit |-> UpperCh(m[2])]
        time(m) ==
            IF m = NoMatch THEN Null
            ELSE [value |-> parseInt(m[1]), unit |-> toLowerCase(m[2])]
    IN  [stepNumber |-> parseInt(stepMatched[1]),
         text |-> stepMatched[2],
         temperature |-> temperature(tempMatch(stepMatched[2])),
         time |-> time(timeMatch(stepMatched[2]))]

\* the loop of parseInstructions over lines
RECURSIVE instructionLines(_)
instructionLines(lines) ==
    LET push(m, rest) == IF m = NoMatch THEN rest ELSE <<instruction(m)>> \o rest
        body(trimmed, rest) ==
            IF trimmed = "" \/ startsWith(trimmed, "#") THEN rest
            ELSE push(stepMatch(trimmed), rest)
    IN  IF lines = <<>> THEN <<>>
        ELSE body(trim(Head(lines)), instructionLines(Tail(lines)))

\* parseInstructions that numbers the steps itself, 1, 2, 3, ...
parseInstructions_Renumbered(text) ==
    LET parsed == instructionLines(split(text, "\n"))
    IN  [i \in 1..Len(parsed) |-> [parsed[i] EXCEPT !.stepNumber = Num(i)]]

parseInstructions(text) == instructionLines(split(text, "\n"))

-----------------------------------------------------------------------------
(* The components that mount RecipeScaler, and RecipeScaler.  A record map   *)
(* is the sequence of its blocks in the order Object.values and for-in give  *)
(* them; a block is [type, Servings], Servings being the value of the        *)
(* page's Servings property: a sequence of parts, each part a sequence whose  *)
(* first element is [typeof, value].  An absent property is the empty         *)
(* sequence: the code treats the two alike.                                   *)

\* String.prototype.includes
includes(s, sub) ==
    \E i \in 1..(Len(s) - Len(sub) + 1) : SubSeq(s, i, i + Len(sub) - 1) = sub

\* x || 1 for the number x parseInt returned: NaN and 0 are falsy
orOne(x) == IF isNaN(x) \/ x[1] = 0 THEN 1 ELSE x[1]

\* servingsStr?.[0]?.[0] when it is a string, NullStr otherwise
servingsPart(servingsStr) ==
    IF Len(servingsStr) > 0 /\ Len(servingsStr[1]) > 0
       /\ servingsStr[1][1].typeof = "string"
    THEN servingsStr[1][1].value
    ELSE NullStr

\* BlockInterceptor: originalServings read from the first block of the record map
rootServings(recordMap) ==
    LET parsed(part) == IF part = NullStr THEN 1 ELSE orOne(parseInt(part))
    IN  parsed(servingsPart(recordMap[1].Servings))

\* getOriginalServings, which accepts positive numbers only
RECURSIVE getOriginalServings(_)
getOriginalServings(recordMap) ==
    LET accept(parsed, rest) ==
            IF ~isNaN(parsed) /\ parsed[1] > 0 THEN parsed[1]
            ELSE getOriginalServings(rest)
        page(part, rest) ==
            IF part = NullStr THEN getOriginalServings(rest)
            ELSE accept(parseInt(part), rest)
    IN  IF recordMap = <<>> THEN 1
        ELSE IF Head(recordMap).type # "page" THEN getOriginalServings(Tail(recordMap))
        ELSE page(servingsPart(Head(recordMap).Servings), Tail(recordMap))

\* a render of RecipeScaler that scales the quantities on display once more
render_Accumulating(state, desiredServings) ==
    [state EXCEPT
       !.desiredServings = desiredServings,
       !.scaledIngredients =
           IF state.ingredients = <<>> THEN <<>>
           ELSE scaleRecipe([i \in 1..Len(state.ingredients) |->
                               IF state.scaledIngredients = <<>> THEN state.ingredients[i]
                               ELSE [state.ingredients[i] EXCEPT
                                       !.quantity = state.scaledIngredients[i].scaledQuantity]],
                            state.originalServings, desiredServings)]

\* a render of RecipeScaler with desiredServings: the memoised ingredients are
\* kept (ingredientsText has not changed) and scaled anew
render(state, desiredServings) ==
    [state EXCEPT
       !.desiredServings = desiredServings,
       !.scaledIngredients =
           IF state.ingredients = <<>> THEN <<>>
           ELSE scaleRecipe(state.ingredients, state.originalServings, desiredServings)]

\* the first render of RecipeScaler: useState(originalServings) and the parse
RecipeScaler(ingredientsText, originalServings) ==
    render([ingredientsText |-> ingredientsText,
            originalServings |-> originalServings,
            desiredServings |-> originalServings,
            ingredients |-> parseIngredients(ingredientsText),
            scaledIngredients |-> <<>>],
           originalServings)

\* the decrease button without Math.max
onDecrease_Unclamped(desiredServings) == desiredServings - 1

\* onClick of the decrease button
onDecrease(desiredServings) == Max({1, desiredServings - 1})

\* onClick of the increase button
onIncrease(desiredServings) == desiredServings + 1

\* onChange of the input
onChange(value) == Max({1, orOne(parseInt(value))})

-----------------------------------------------------------------------------
(* The calls.  A state holds one call of an exported function: its arguments *)
(* (input), whether it has returned (pc) and what it returned (output).  A   *)
(* returned formatQuantity string can be handed to parseQuantity, and a      *)
(* returned ingredient list to scaleRecipe.  A component that mounts         *)
(* RecipeScaler returns an element with the props (pc is "element", output    *)
(* the props); output is then the state of the RecipeScaler: pc is "mounted"  *)
(* after its first render and "updated" once an event of the servings         *)
(* control has been handled.                                                  *)

MaxLines == 3

MaxServings == 4

MaxInputDenominator == 32

MaxWhole == 3

MaxInstructionLines == 3

MaxDesiredServings == 5

Markers == {"", "-", "- ", "* "}

\* quantity tokens with the number each one writes (NullNum: none)
QuantityTokens ==
    { [tok |-> "2", val |-> Rat(2, 1)],
      [tok |-> "2.5", val |-> Rat(5, 2)],
      [tok |-> "2 1/4", val |-> Rat(9, 4)],
      [tok |-> "1/4", val |-> Rat(1, 4)],
      [tok |-> "0.5  3/4", val |-> Rat(5, 4)],
      [tok |-> "0", val |-> Rat(0, 1)],
      [tok |-> "0 0/4", val |-> Rat(0, 1)],
      [tok |-> "1/0", val |-> NullNum] }

\* every canonical unit name
CanonicalUnits ==
    UNION {DOMAIN UNIT_CONVERSIONS[g].conversions : g \in 1..Len(UNIT_CONVERSIONS)}

\* unit words as an author may write them: every registered spelling, some in
\* capitals, and words that are no unit
UnitSpellings ==
    CanonicalUnits \cup DOMAIN UNIT_ALIASES
    \cup {"Cups", "TBSP", "Eggs", "pinch", "large", "fl", "constructor"}

Names == {"", "flour", "all-purpose flour", "butter, softened"}

Tails == {"", " (softened)"}

\* lines that are no ingredient line of the quantity-unit-name shape
RawLines ==
    {"", "   ", "# Ingredients", "a pinch of salt", "eggs", "2", "2 1/4",
     "2   500", "2 cups, sifted", "1.2.3 cups sugar", ". cups sugar"}

\* lines with a remark in parentheses or after a comma
NoteLines ==
    {"1 tbsp butter, softened", "1 tbsp butter (softened)",
     "2 cups flour (sifted) (twice)", "2 cups flour (), packed",
     "2 cups (sifted) flour", "- 2 eggs (large, beaten)"}

\* the unit words tried with every marker, name and tail
CommonUnitWords == {"cups", "g", "eggs", "pinch", "constructor"}

\* the quantity tokens tried with every marker, name and tail
CommonQuantityTokens == {q \in QuantityTokens : q.tok \in {"2", "2 1/4", "0"}}

BuiltLine(mk, q, u, n, t) ==
    [fn |-> "parseIngredientLine", shape |-> "built", marker |-> mk, qty |-> q,
     unit |-> u, name |-> n, tail |-> t,
     line |-> mk \o q.tok \o " " \o u \o (IF n = "" THEN "" ELSE " " \o n) \o t]

\* every quantity token with every unit spelling, and the common ones with every
\* marker, name and tail
LineInputs ==
    { BuiltLine("", q, u, n, "") : q \in QuantityTokens, u \in UnitSpellings,
                                  n \in {"", "flour"} }
    \cup
    { BuiltLine(mk, q, u, n, t) : mk \in Markers, q \in CommonQuantityTokens,
                                 u \in CommonUnitWords, n \in Names, t \in Tails }
    \cup
    { [fn |-> "parseIngredientLine", shape |-> "raw", marker |-> "",
       qty |-> [tok |-> "", val |-> NullNum], unit |-> "", name |-> "", tail |-> "",
       line |-> l] : l \in RawLines \cup NoteLines }

TextLines ==
    {"", "# Ingredients", "2 1/4 cups all-purpose flour", "- 2 eggs", "a pinch of salt"}

RECURSIVE SeqsUpTo(_, _)
SeqsUpTo(S, n) ==
    IF n = 0 THEN {<<>>}
    ELSE SeqsUpTo(S, n - 1) \cup {Append(q, x) : q \in SeqsUpTo(S, n - 1), x \in S}

\* Array.prototype.join
RECURSIVE join(_, _)
join(lines, sep) ==
    IF lines = <<>> THEN ""
    ELSE IF Len(lines) = 1 THEN lines[1]
    ELSE lines[1] \o sep \o join(Tail(lines), sep)

TextInputs ==
    { [fn |-> "parseIngredients", lines |-> ls, text |-> join(ls, "\n")] :
        ls \in SeqsUpTo(TextLines, MaxLines) \ {<<>>} }

ConvertQuantities == {fromInt(1), fromInt(3), literal(75, 2)}

ConvertUnits ==
    CanonicalUnits
    \cup {"cups", "Tablespoons", " OZ ", "pounds", "fluid ounces", "count", "pinch",
          "constructor", ""}

ConvertInputs ==
    { [fn |-> "convertQuantity", quantity |-> q, fromUnit |-> f, toUnit |-> t] :
        q \in ConvertQuantities, f \in ConvertUnits, t \in ConvertUnits }

FormatInputs ==
    { [fn |-> "formatQuantity", quantity |-> Rat(n, d)] :
        d \in 1..MaxInputDenominator, n \in 1..(MaxWhole * MaxInputDenominator) }
    \cup { [fn |-> "formatQuantity", quantity |-> Num(n)] : n \in (-MaxWhole)..MaxWhole }
    \cup { [fn |-> "formatQuantity", quantity |-> Rat(2999, 1000)],
           [fn |-> "formatQuantity", quantity |-> Rat(39, 40)],
           [fn |-> "formatQuantity", quantity |-> Rat(1, 200)] }

\* instruction lines: steps with and without temperature and time, headings,
\* blank lines, continuation text and lines that only look like steps
InstructionLines ==
    {"1. Preheat oven to 350^F for 10 minutes.", "2. Mix",
     "2.  Bake 25-30 MINS at 180c", "0. Rest 1 hr", "  3. Fold in 2cups flour  ",
     "10. Simmer 5 - 10 min", "007. Cook 1 hour 30 seconds",
     "4. Use 10-minute dough", "5. Wait 45 Sec, 90 F", "6. Stir 5 minced cloves",
     "7. Chill 2hrs then 400^ C", "8. 9", "9. Heat to 75^c, hold 3 -4 hours",
     "", "   ", "# Instructions", "#1. Mix", "then stir well", "1.Mix", "3. ",
     "1) Mix", "a 1. b", ". Mix", "1 . Mix", "-1. Mix"}

\* the lines that texts of several lines are made of
CommonInstructionLines ==
    {"", "# Instructions", "1. Preheat oven to 350^F for 10 minutes.", "2. Mix",
     "2.  Bake 25-30 MINS at 180c", "0. Rest 1 hr", "then stir well"}

InstructionInputs ==
    { [fn |-> "parseInstructions", lines |-> ls, text |-> join(ls, "\n")] :
        ls \in {<<l>> : l \in InstructionLines}
               \cup (SeqsUpTo(CommonInstructionLines, MaxInstructionLines) \ {<<>>}) }

ServingsPairs == ((1..MaxServings) \X (1..MaxServings)) \cup {<<24, 12>>}

\* what the page's Servings property may hold
ServingsStrings == {"4", "0", "-4", "abc", "", "2.5", "12 servings"}

ServingsValues ==
    { <<>>, << <<>> >>, << <<[typeof |-> "number", value |-> "4"]>> >> }
    \cup { << <<[typeof |-> "string", value |-> s]>> >> : s \in ServingsStrings }

\* record maps of one block, and of a text block or an invalid page before a page
RecordMaps ==
    { <<[type |-> t, Servings |-> v]>> : t \in {"page", "text"}, v \in ServingsValues }
    \cup { <<[type |-> "text", Servings |-> << <<[typeof |-> "string", value |-> "6"]>> >>],
            [type |-> "page", Servings |-> v]>> : v \in ServingsValues }
    \cup { <<[type |-> "page", Servings |-> << <<[typeof |-> "string", value |-> "0"]>> >>],
            [type |-> "page", Servings |-> << <<[typeof |-> "string", value |-> "4"]>> >>]>> }

\* the bulleted items found under a heading
ItemLists ==
    { <<"2 1/4 cups all-purpose flour", "- 2 eggs">>, <<"1/4 tsp salt">>,
      <<"a pinch of salt">>, <<>> }

BlockInterceptorInputs ==
    { [fn |-> "BlockInterceptor", blockText |-> b, recordMap |-> rm, listItems |-> ls] :
        b \in {"Ingredients", "Method"}, rm \in RecordMaps, ls \in ItemLists }

RecipePageRendererInputs ==
    { [fn |-> "RecipePageRenderer", ingredients |-> ls] : ls \in ItemLists }

RecipeScalerEmbedInputs ==
    { [fn |-> "RecipeScalerEmbed", ingredientsText |-> t] :
        t \in {"", "2 cups flour\n1/4 tsp salt", "to taste"} }

GetOriginalServingsInputs ==
    { [fn |-> "getOriginalServings", recordMap |-> rm] : rm \in RecordMaps \cup {<<>>} }

\* what the servings input may hold when it changes
InputValues == {"", "0", "-3", "abc", "2.5", "3", "7"}

Init ==
    /\ pc = "call"
    /\ output = ""
    /\ input \in LineInputs \cup TextInputs \cup ConvertInputs \cup FormatInputs
                \cup InstructionInputs \cup BlockInterceptorInputs
                \cup RecipePageRendererInputs \cup RecipeScalerEmbedInputs
                \cup GetOriginalServingsInputs

CallParseIngredientLine ==
    /\ pc = "call" /\ input.fn = "parseIngredientLine"
    /\ output' = parseIngredientLine(input.line)
    /\ pc' = "return"
    /\ UNCHANGED input

CallParseIngredients ==
    /\ pc = "call" /\ input.fn = "parseIngredients"
    /\ output' = parseIngredients(input.text)
    /\ pc' = "return"
    /\ UNCHANGED input

CallConvertQuantity ==
    /\ pc = "call" /\ input.fn = "convertQuantity"
    /\ output' = convertQuantity(input.quantity, input.fromUnit, input.toUnit)
    /\ pc' = "return"
    /\ UNCHANGED input

CallFormatQuantity ==
    /\ pc = "call" /\ input.fn = "formatQuantity"
    /\ output' = formatQuantity(input.quantity)
    /\ pc' = "return"
    /\ UNCHANGED input

\* parseQuantity on the string formatQuantity returned
CallParseQuantity ==
    /\ pc = "return" /\ input.fn = "formatQuantity"
    /\ input' = [fn |-> "parseQuantity", quantityStr |-> output,
                 formatted |-> input.quantity]
    /\ output' = parseQuantity(output)
    /\ pc' = "return"

\* scaleRecipe on the list parseIngredients returned
CallScaleRecipe ==
    /\ pc = "return" /\ input.fn = "parseIngredients"
    /\ \E sv \in ServingsPairs :
         /\ input' = [fn |-> "scaleRecipe", ingredients |-> output,
                      originalServings |-> sv[1], desiredServings |-> sv[2]]
         /\ output' = scaleRecipe(output, sv[1], sv[2])
    /\ pc' = "return"

CallParseInstructions ==
    /\ pc = "call" /\ input.fn = "parseInstructions"
    /\ output' = parseInstructions(input.text)
    /\ pc' = "return"
    /\ UNCHANGED input

CallGetOriginalServings ==
    /\ pc = "call" /\ input.fn = "getOriginalServings"
    /\ output' = getOriginalServings(input.recordMap)
    /\ pc' = "return"
    /\ UNCHANGED input

\* BlockInterceptor: the children alone unless the block is an "Ingredients"
\* heading with list items, the children and a RecipeScaler element otherwise
RenderBlockInterceptor ==
    /\ pc = "call" /\ input.fn = "BlockInterceptor"
    /\ IF ~includes(toLowerCase(input.blockText), "ingredients") \/ Len(input.listItems) = 0
       THEN pc' = "return" /\ output' = "children"
       ELSE /\ pc' = "element"
            /\ output' = [ingredientsText |-> join(input.listItems, "\n"),
                          originalServings |-> rootServings(input.recordMap)]
    /\ UNCHANGED input

RenderRecipePageRenderer ==
    /\ pc = "call" /\ input.fn = "RecipePageRenderer"
    /\ IF Len(input.ingredients) = 0
       THEN pc' = "return" /\ output' = NullStr
       ELSE /\ pc' = "element"
            /\ output' = [ingredientsText |-> join(input.ingredients, "\n"),
                          originalServings |-> 1]
    /\ UNCHANGED input

RenderRecipeScalerEmbed ==
    /\ pc = "call" /\ input.fn = "RecipeScalerEmbed"
    /\ IF input.ingredientsText = ""
       THEN pc' = "return" /\ output' = "No ingredients found."
       ELSE /\ pc' = "element"
            /\ output' = [ingredientsText |-> input.ingredientsText,
                          originalServings |-> 1]
    /\ UNCHANGED input

\* the first render of the RecipeScaler element a component has returned
MountRecipeScaler ==
    /\ pc = "element"
    /\ output' = RecipeScaler(output.ingredientsText, output.originalServings)
    /\ pc' = "mounted"
    /\ UNCHANGED input

\* the servings control is rendered when some ingredient was parsed
ControlRendered == pc \in {"mounted", "updated"} /\ Len(output.ingredients) > 0

DecreaseServings ==
    /\ ControlRendered
    /\ output' = render(output, onDecrease(output.desiredServings))
    /\ pc' = "updated"
    /\ UNCHANGED input

IncreaseServings ==
    /\ ControlRendered
    /\ output.desiredServings < MaxDesiredServings
    /\ output' = render(output, onIncrease(output.desiredServings))
    /\ pc' = "updated"
    /\ UNCHANGED input

ChangeServings ==
    /\ ControlRendered
    /\ \E value \in InputValues : output' = render(output, onChange(value))
    /\ pc' = "updated"
    /\ UNCHANGED input

Next ==
    \/ CallParseIngredientLine
    \/ CallParseIngredients
    \/ CallConvertQuantity
    \/ CallFormatQuantity
    \/ CallParseQuantity
    \/ CallScaleRecipe
    \/ CallParseInstructions
    \/ CallGetOriginalServings
    \/ RenderBlockInterceptor
    \/ RenderRecipePageRenderer
    \/ RenderRecipeScalerEmbed
    \/ MountRecipeScaler
    \/ DecreaseServings
    \/ IncreaseServings
    \/ ChangeServings

Spec == Init /\ [][Next]_vars

-----------------------------------------------------------------------------
(* Properties.  Each is stated over the calls that have returned.            *)

Returned(fn) == pc = "return" /\ input.fn = fn

\* the categories whose conversion table lists unit
CategoriesOf(unit) ==
    {UNIT_CONVERSIONS[g].type : g \in {h \in 1..Len(UNIT_CONVERSIONS) :
                                        unit \in DOMAIN UNIT_CONVERSIONS[h].conversions}}

\* a unit word without white space
SingleWord(s) == s # "" /\ \A i \in 1..Len(s) : Ch(s, i) \in Letters

\* normalizeUnit returns a value the callers take for a unit
Accepts(s) == normalizeUnit(s) \notin {NullStr, ""}

\* a spelling the registry lists, as an alias or as a canonical name
Registered(s) == trim(toLowerCase(s)) \in DOMAIN UNIT_ALIASES \cup CanonicalUnits

\* a returned call of parseIngredientLine on marker, quantity token of positive
\* value, one unit word, optional name, no parenthesised tail
HappyLine ==
    /\ Returned("parseIngredientLine") /\ input.shape = "built"
    /\ input.qty.val # NullNum /\ input.qty.val[1] > 0
    /\ SingleWord(input.unit)
    /\ input.tail = ""

\* the record C1 describes for the line of the call
HappyRecord ==
    /\ output # Null
    /\ output.quantity = input.qty.val
    /\ output.unit = normalizeUnit(input.unit)
    /\ output.unitType \in CategoriesOf(output.unit)
    /\ output.ingredient = (IF input.name = "" THEN input.unit ELSE input.name)
    /\ output.notes = Undefined

(* C1.  For a line made of an optional marker, a quantity token of positive  *)
(* value q, one single-word unit spelling s that normalizeUnit accepts and   *)
(* an optional name n without parenthesised tail, parseIngredientLine        *)
(* returns the record with quantity q, unit normalizeUnit(s), unitType that  *)
(* unit's category, ingredient n (s when n is absent) and no notes.          *)
C1_HappyPath == HappyLine /\ Accepts(input.unit) => HappyRecord

\* C1 with "a spelling the registry lists" in place of "a spelling
\* normalizeUnit accepts": this one holds
C1_RegisteredSpellings == HappyLine /\ Registered(input.unit) => HappyRecord

\* the first example of C1 has returned
C1_FlourExample ==
    /\ Returned("parseIngredientLine")
    /\ input.line = "2 1/4 cups all-purpose flour"
    /\ output # Null /\ output.quantity = Rat(9, 4) /\ output.unit = "cup"
    /\ output.ingredient = "all-purpose flour" /\ output.notes = Undefined

\* what C2 requires of one parsed record
ValidIngredient(r) ==
    /\ r.quantity[1] > 0
    /\ r.unit \in CanonicalUnits
    /\ r.unitType \in CategoriesOf(r.unit)
    /\ GroupsOf(r.unit) # <<>>

\* every alias target is a canonical unit
AliasTargetsExist == \A a \in DOMAIN UNIT_ALIASES : UNIT_ALIASES[a] \in CanonicalUnits

\* a built line whose quantity is zero or has a zero denominator, or whose unit
\* word the registry does not list
RejectedLine ==
    /\ input.shape = "built"
    /\ \/ input.qty.val = NullNum
       \/ input.qty.val[1] = 0
       \/ ~Registered(input.unit)

(* C2.  Every record parseIngredientLine returns, and every element          *)
(* parseIngredients returns, has a quantity above 0, a unit that is a        *)
(* canonical name of some conversion table (every alias target is one) and   *)
(* the category of that table as unitType, so that getUnitType never falls   *)
(* back to 'count'; a line whose quantity is zero or has a zero denominator, *)
(* or whose unit word is unknown, gives no record.                           *)
C2_ParsedInvariant ==
    /\ AliasTargetsExist
    /\ Returned("parseIngredientLine") /\ output # Null => ValidIngredient(output)
    /\ Returned("parseIngredientLine") /\ RejectedLine => output = Null
    /\ Returned("parseIngredients") =>
         \A i \in 1..Len(output) : ValidIngredient(output[i])

\* C2 for the lines whose unit word is not "constructor": this one holds
C2_OwnSpellings ==
    Returned("parseIngredientLine") /\ input.shape = "built"
    /\ trim(toLowerCase(input.unit)) # "constructor"
    => /\ output # Null => ValidIngredient(output)
       /\ RejectedLine => output = Null

\* the lines of text that parseIngredients is to keep, parsed, in order
KeptLines(lines) ==
    LET keep(l) == /\ trim(l) # ""
                   /\ ~startsWith(trim(l), "#")
                   /\ parseIngredientLine(l) # Null
        kept == SelectSeq(lines, keep)
    IN  [i \in 1..Len(kept) |-> parseIngredientLine(kept[i])]

(* C3.  parseIngredients returns exactly the parseIngredientLine results, in *)
(* line order, of the lines that are not blank, do not begin with '#' after  *)
(* trimming and parse; the other lines add nothing and change nothing.       *)
C3_OrderedFilter ==
    Returned("parseIngredients") => output = KeptLines(input.lines)

\* a text with an unparseable line between two ingredient lines has been parsed
C3_SkipsAndKeeps ==
    /\ Returned("parseIngredients")
    /\ input.lines = <<"2 1/4 cups all-purpose flour", "a pinch of salt", "- 2 eggs">>
    /\ Len(output) = 2
    /\ output[1].ingredient = "all-purpose flour" /\ output[2].ingredient = "eggs"

\* the base units of the definitions whose conversion table lists unit
BaseUnitsOf(unit) ==
    {UNIT_CONVERSIONS[g].baseUnit : g \in {h \in 1..Len(UNIT_CONVERSIONS) :
                                            unit \in DOMAIN UNIT_CONVERSIONS[h].conversions}}

\* the two units belong to definitions with different base units
DifferentBase(a, b) == \E x \in BaseUnitsOf(a), y \in BaseUnitsOf(b) : x # y

\* when C4 says convertQuantity returns absence
AbsenceExpected ==
    \/ ~Accepts(input.fromUnit)
    \/ ~Accepts(input.toUnit)
    \/ DifferentBase(normalizeUnit(input.fromUnit), normalizeUnit(input.toUnit))

(* C4.  convertQuantity returns absence if and only if normalizeUnit fails   *)
(* on from or on to, or the two normalized units belong to definitions with  *)
(* different base units; unit lookup ignores case and surrounding white      *)
(* space.                                                                    *)
C4_AbsenceIff ==
    Returned("convertQuantity") =>
        /\ output = Null <=> AbsenceExpected
        /\ output = convertQuantity(input.quantity, trim(toLowerCase(input.fromUnit)),
                                    trim(toLowerCase(input.toUnit)))

\* C4 for the calls that do not name "constructor": this one holds
C4_OwnNames ==
    Returned("convertQuantity") /\ "constructor" \notin {input.fromUnit, input.toUnit}
    => /\ output = Null <=> AbsenceExpected
       /\ output = convertQuantity(input.quantity, trim(toLowerCase(input.fromUnit)),
                                   trim(toLowerCase(input.toUnit)))

\* the double the conversion tables give as the multiplier of a canonical unit
TableMultiplier(unit) ==
    LET g == CHOOSE h \in 1..Len(UNIT_CONVERSIONS) :
                 unit \in DOMAIN UNIT_CONVERSIONS[h].conversions
        m == UNIT_CONVERSIONS[g].conversions[unit]
    IN  literal(m[1], m[2])

(* C5.  For every canonical unit u of every category, with multiplier m, and *)
(* every quantity x, convertQuantity(x, u, base) succeeds and its quantity   *)
(* is x * m, base being the baseUnit of u's definition.                      *)
C5_ToBaseUnit ==
    Returned("convertQuantity") /\ input.fromUnit \in CanonicalUnits
    /\ input.toUnit \in BaseUnitsOf(input.fromUnit)
    => /\ output # Null
       /\ output.quantity = fmul(input.quantity, TableMultiplier(input.fromUnit))

\* C5 for the volume and weight units: this one holds
C5_VolumeAndWeight ==
    Returned("convertQuantity") /\ input.fromUnit \in CanonicalUnits
    /\ input.toUnit \in BaseUnitsOf(input.fromUnit) /\ input.toUnit # "count"
    => /\ output # Null
       /\ output.quantity = fmul(input.quantity, TableMultiplier(input.fromUnit))

\* the fields C6 gives a successful conversion
ConversionFields ==
    /\ output.baseQuantity = fmul(input.quantity,
                                  TableMultiplier(normalizeUnit(input.fromUnit)))
    /\ output.quantity = fdiv(output.baseQuantity,
                              TableMultiplier(normalizeUnit(input.toUnit)))
    /\ output.unit = normalizeUnit(input.toUnit)
    /\ {output.baseUnit} = BaseUnitsOf(normalizeUnit(input.fromUnit))
    /\ {output.baseUnit} = BaseUnitsOf(normalizeUnit(input.toUnit))

\* a successful conversion of a unit to itself or to an alias of itself
SameUnit ==
    /\ Returned("convertQuantity") /\ output # Null
    /\ normalizeUnit(input.fromUnit) = normalizeUnit(input.toUnit)

\* the double next above d
nextUp(d) ==
    LET up(n) == IF BBitLen(n) > MantissaBits THEN [m |-> BShr(n, 1), e |-> d.e + 1]
                 ELSE [m |-> n, e |-> d.e]
    IN  up(BAdd(d.m, <<1>>))

\* a and b are the same double or neighbours
Adjacent(a, b) == a = b \/ nextUp(a) = b \/ nextUp(b) = a

(* C6 as stated.  A successful conversion has baseQuantity = q x             *)
(* multiplier(from), quantity = baseQuantity / multiplier(to), unit = the    *)
(* canonical form of to and baseUnit = the base unit of the shared category; *)
(* converting a unit to itself or to an alias of itself returns quantity q.  *)
C6_Original ==
    /\ Returned("convertQuantity") /\ output # Null => ConversionFields
    /\ SameUnit => output.quantity = input.quantity

(* C6 amended.  The same fields; converting a unit to itself or to an alias  *)
(* of itself returns q up to the rounding of the two operations: q or a      *)
(* double next to q, and q itself when the unit's multiplier is 1.           *)
C6_Amended ==
    /\ Returned("convertQuantity") /\ output # Null => ConversionFields
    /\ SameUnit => Adjacent(output.quantity, input.quantity)
    /\ SameUnit /\ TableMultiplier(normalizeUnit(input.toUnit)) = fromInt(1)
       => output.quantity = input.quantity

\* 3 oz converted to oz has returned the double below 3
C6_ThreeOunces ==
    /\ Returned("convertQuantity")
    /\ input.quantity = fromInt(3) /\ input.fromUnit = "oz" /\ input.toUnit = " OZ "
    /\ output # Null /\ output.unit = "oz"
    /\ output.quantity # fromInt(3) /\ nextUp(output.quantity) = fromInt(3)

\* what C7 requires of the i-th ingredient of a returned scaleRecipe
ScaledAsClaimed(i) ==
    LET in  == input.ingredients[i]
        out == output[i]
        factor == RDiv(Num(input.desiredServings), Num(input.originalServings))
    IN  /\ \A f \in DOMAIN in : out[f] = in[f]
        /\ out.scaledQuantity = RMul(in.quantity, factor)
        /\ out.scaledUnit = in.unit
        /\ out.displayQuantity = formatQuantity(out.scaledQuantity)
        /\ input.originalServings = 24 /\ input.desiredServings = 12
           => out.scaledQuantity = RMul(in.quantity, Rat(1, 2))

(* C7.  scaleRecipe returns a list as long as its input whose i-th element   *)
(* carries every field of the i-th input unchanged, scaledQuantity =         *)
(* quantity x (desiredServings / originalServings), scaledUnit = unit and    *)
(* displayQuantity = formatQuantity(scaledQuantity); (24, 12) halves every   *)
(* quantity.                                                                 *)
C7_ScaleRecipe ==
    Returned("scaleRecipe") =>
        /\ Len(output) = Len(input.ingredients)
        /\ \A i \in 1..Len(output) : ScaledAsClaimed(i)

\* a recipe of two ingredients has been scaled from 24 to 12 servings
C7_HalvedRecipe ==
    /\ Returned("scaleRecipe")
    /\ input.originalServings = 24 /\ input.desiredServings = 12
    /\ Len(input.ingredients) = 2
    /\ input.ingredients[1].quantity = Rat(9, 4)
    /\ output[1].scaledQuantity = Rat(9, 8) /\ output[1].displayQuantity = "1 1/8"
    /\ output[2].ingredient = "eggs" /\ output[2].scaledQuantity = Num(1)

\* the best numerator and denominator of the search for the remainder of v
BestOf(v) ==
    fractionLoop([numerator |-> 0, denominator |-> 1, error |-> Num(1)],
                 RSub(v, Num(Floor(v))), 1)

\* the remainder of v rounds up to a whole unit in the search
RoundsUp(v) == BestOf(v).numerator = BestOf(v).denominator

(* C8.  For a non-whole value whose remainder rounds up to a whole unit in   *)
(* the denominator search, formatQuantity returns the plain whole number     *)
(* whole + 1, with no fraction part.                                         *)
C8_RoundsUpToWhole ==
    Returned("formatQuantity") /\ ~IsWhole(input.quantity) /\ RoundsUp(input.quantity)
    => output = IntToString(Floor(input.quantity) + 1)

\* the smallest of a non-empty finite set of rationals
RMin(S) == CHOOSE x \in S : \A y \in S : ~RLess(y, x)

\* min over d in 1..16 of |round(r d)/d - r|, r the remainder of v
MinError(v) ==
    LET r == RSub(v, Num(Floor(v)))
    IN  RMin({RAbs(RSub(Rat(Round(RMul(r, Num(d))), d), r)) : d \in 1..maxDenominator})

\* s has a fraction part
FractionForm(s) == \E i \in 1..Len(s) : Ch(s, i) = "/"

\* the number a string of formatQuantity denotes: the sum of its parts
Denoted(s) ==
    LET parts == splitWs(s)
    IN  SumParts([i \in 1..Len(parts) |-> PartValue(parts[i])], Num(0))

\* what C9 says of the string returned for the non-whole value v
FormAsClaimed(v) ==
    /\ FractionForm(output) <=> RLess(MinError(v), Rat(1, 100))
    /\ ~FractionForm(output) => output = toFixed2(v)
    /\ ~RLess(Rat(1, 100), RAbs(RSub(Denoted(output), v)))

(* C9.  For a non-whole value v, formatQuantity returns a fraction-form      *)
(* string exactly when the smallest approximation error over the             *)
(* denominators 1..16 is below 0.01, and the two-decimal string otherwise;   *)
(* the number the returned string denotes is within 0.01 of v.               *)
C9_FractionOrFixed ==
    Returned("formatQuantity") /\ ~IsWhole(input.quantity)
    => FormAsClaimed(input.quantity)

\* C9 for the values whose remainder does not round up to a whole unit: this
\* one holds
C9_NoRoundUp ==
    Returned("formatQuantity") /\ ~IsWhole(input.quantity) /\ ~RoundsUp(input.quantity)
    => FormAsClaimed(input.quantity)

\* s is the plain integer string of n: an optional "-" and the digits of |n|
IntegerString(s, n) ==
    LET digits == IF n < 0 THEN Rest(s, 2) ELSE s
    IN  /\ n < 0 => Len(s) >= 1 /\ Ch(s, 1) = "-"
        /\ digits # "" /\ \A i \in 1..Len(digits) : Ch(digits, i) \in Digits
        /\ Len(digits) > 1 => Ch(digits, 1) # "0"
        /\ DigitsValue(digits) = Abs(n)

\* formatQuantity returns the integer string of every whole number
WholeFormat ==
    Returned("formatQuantity") /\ IsWhole(input.quantity)
    => IntegerString(output, input.quantity[1])

(* C10 as stated.  For every whole number n, formatQuantity(n) is the plain  *)
(* integer string of n and parseQuantity(formatQuantity(n)) = n.             *)
C10_Original ==
    /\ WholeFormat
    /\ Returned("parseQuantity") /\ IsWhole(input.formatted) => output = input.formatted

(* C10 amended.  For every whole number n, formatQuantity(n) is the plain    *)
(* integer string of n; parseQuantity(formatQuantity(n)) is n for every      *)
(* whole number n >= 1, and absence for every whole number n <= 0.           *)
C10_Amended ==
    /\ WholeFormat
    /\ Returned("parseQuantity") /\ IsWhole(input.formatted) /\ input.formatted[1] >= 1
       => output = input.formatted
    /\ Returned("parseQuantity") /\ IsWhole(input.formatted) /\ input.formatted[1] <= 0
       => output = NullNum

\* 12 has been formatted and parsed back
C10_TwelveAndBack ==
    /\ Returned("parseQuantity")
    /\ input.formatted = Num(12) /\ input.quantityStr = "12" /\ output = Num(12)

-----------------------------------------------------------------------------
(* Properties of the instruction parser *)

AllIn(s, class) == \A i \in 1..Len(s) : Ch(s, i) \in class

\* the digit string digits writes the natural number k (leading zeros allowed)
Written(digits, k) ==
    /\ digits # "" /\ AllIn(digits, Digits) /\ k >= 0
    /\ \E z \in 0..(Len(digits) - 1) :
         AllIn(SubSeq(digits, 1, z), {"0"}) /\ Rest(digits, z + 1) = NatToString(k)

\* trimmed reads "<digits>. <text>": n digits, a dot, w white-space characters
\* and a text that begins after them
StepReading(trimmed, n, w) ==
    /\ n + 1 + w < Len(trimmed)
    /\ AllIn(SubSeq(trimmed, 1, n), Digits)
    /\ Ch(trimmed, n + 1) = "."
    /\ AllIn(SubSeq(trimmed, n + 2, n + 1 + w), WhiteSpace)
    /\ Ch(trimmed, n + 2 + w) \notin WhiteSpace

\* line is a step line
IsStep(line) ==
    /\ trim(line) # ""
    /\ ~startsWith(trim(line), "#")
    /\ \E n, w \in 1..Len(trim(line)) : StepReading(trim(line), n, w)

\* record carries the number and the text written on the step line
StepAsWritten(line, record) ==
    \E n, w \in 1..Len(trim(line)) :
        /\ StepReading(trim(line), n, w)
        /\ record.stepNumber[2] = 1
        /\ Written(SubSeq(trim(line), 1, n), record.stepNumber[1])
        /\ record.text = Rest(trim(line), n + 2 + w)

(* C11.  parseInstructions returns, in line order, exactly one record per     *)
(* line that after trimming is not blank, does not begin with '#' and reads   *)
(* "<digits>. <text>" (digits, a dot, white space, a non-empty text);         *)
(* stepNumber is the integer written, repeated and out-of-order numbers       *)
(* included, and text is the remainder; every other line gives no record and  *)
(* changes none.                                                              *)
C11_StepsAsWritten ==
    Returned("parseInstructions")
    => LET kept == SelectSeq(input.lines, IsStep)
       IN  /\ Len(output) = Len(kept)
           /\ \A j \in 1..Len(kept) : StepAsWritten(kept[j], output[j])

\* a text with continuation text between two steps that carry the same number
\* has been parsed
C11_RepeatedNumber ==
    /\ Returned("parseInstructions")
    /\ input.lines = <<"2. Mix", "then stir well", "2.  Bake 25-30 MINS at 180c">>
    /\ Len(output) = 2
    /\ output[1].stepNumber = Num(2) /\ output[2].stepNumber = Num(2)
    /\ output[2].text = "Bake 25-30 MINS at 180c"

(* C12.  Every record parseInstructions returns has a stepNumber that is a    *)
(* positive integer (>= 1), whatever the text.                                *)
C12_PositiveStepNumber ==
    Returned("parseInstructions")
    => \A j \in 1..Len(output) :
         output[j].stepNumber[2] = 1 /\ output[j].stepNumber[1] >= 1

\* the runs of digits in text: <<start, length>>
DigitRuns(text) ==
    {r \in (1..Len(text)) \X (1..Len(text)) :
        r[1] + r[2] - 1 <= Len(text) /\ AllIn(SubSeq(text, r[1], r[1] + r[2] - 1), Digits)}

\* the place of the letter of a temperature written from the digit run r
\* ("<digits>F", "<digits>^C", in either case), 0 when r writes none
TemperatureLetter(text, r) ==
    LET at == r[1] + r[2]
    IN  IF charAt(text, at) \in {"F", "C", "f", "c"} THEN at
        ELSE IF charAt(text, at) = Degree /\ charAt(text, at + 1) \in {"F", "C", "f", "c"}
        THEN at + 1
        ELSE 0

\* t is what C13 says of the temperature of text
TemperatureAsClaimed(text, t) ==
    LET found == {r \in DigitRuns(text) : TemperatureLetter(text, r) # 0}
    IN  IF found = {} THEN t = Null
        ELSE \E r \in found :
               /\ \A o \in found : r[1] <= o[1]
               /\ t # Null
               /\ t.value[2] = 1
               /\ Written(SubSeq(text, r[1], r[1] + r[2] - 1), t.value[1])
               /\ t.unit \in {"F", "C"}
               /\ LowerCh(t.unit) = LowerCh(Ch(text, TemperatureLetter(text, r)))

UnitWords == {"minute", "min", "second", "sec", "hour", "hr"}

\* text spells the unit word u at place p, in either case
SpellsUnit(text, p, u) == toLowerCase(substr(text, p, Len(u))) = u

\* text[a .. b-1] is white space, or white space around "-<digits>"
RangeGap(text, a, b) ==
    \/ AllIn(SubSeq(text, a, b - 1), WhiteSpace)
    \/ \E h \in a..(b - 1) : \E d \in (h + 1)..(b - 1) : \E e \in d..(b - 1) :
         /\ AllIn(SubSeq(text, a, h - 1), WhiteSpace)
         /\ Ch(text, h) = "-"
         /\ AllIn(SubSeq(text, h + 1, d - 1), WhiteSpace)
         /\ AllIn(SubSeq(text, d, e), Digits)
         /\ AllIn(SubSeq(text, e + 1, b - 1), WhiteSpace)

\* the times written in text, "<digits>[-<digits>] <unit>": <<start, length of
\* the first number, place of the unit word>>
TimesWritten(text) ==
    {o \in UNION {{<<r[1], r[2], p>> : p \in (r[1] + r[2])..Len(text)} : r \in DigitRuns(text)} :
        /\ \E u \in UnitWords : SpellsUnit(text, o[3], u)
        /\ RangeGap(text, o[1] + o[2], o[3])}

\* t is what C13 says of the time of text
TimeAsClaimed(text, t) ==
    LET found == TimesWritten(text)
    IN  IF found = {} THEN t = Null
        ELSE \E o \in found :
               /\ \A other \in found : o[1] <= other[1]
               /\ t # Null
               /\ t.value[2] = 1
               /\ Written(SubSeq(text, o[1], o[1] + o[2] - 1), t.value[1])
               /\ t.unit \in UnitWords
               /\ SpellsUnit(text, o[3], t.unit)
               /\ \A u \in UnitWords : SpellsUnit(text, o[3], u) => Len(u) <= Len(t.unit)

-----------------------------------------------------------------------------
(* Properties of the notes *)

\* the places of the "(" of a parenthesised group that ends the trimmed line t:
\* "(", a non-empty text without ")", and ")" as the last character
FinalGroups(t) ==
    {i \in 1..(Len(t) - 2) :
        /\ Ch(t, i) = "(" /\ Ch(t, Len(t)) = ")"
        /\ \A j \in (i + 1)..(Len(t) - 1) : Ch(t, j) # ")"}

-----------------------------------------------------------------------------
(* Properties of the components *)

\* a RecipeScaler is on the page
Mounted == pc \in {"mounted", "updated"}

(* C15.  Whatever the record map and whatever string the page's Servings      *)
(* property holds, every component that mounts RecipeScaler (BlockInterceptor, *)
(* RecipePageRenderer, RecipeScalerEmbed) passes an originalServings >= 1, so  *)
(* that scaleRecipe is never called with a zero or negative originalServings.  *)
C15_PositiveOriginalServings ==
    pc = "element" \/ Mounted => output.originalServings >= 1

\* the same of the two components that pass the constant 1, and of
\* getOriginalServings
C15_ConstantAndGuarded ==
    /\ (pc = "element" \/ Mounted)
       /\ input.fn \in {"RecipePageRenderer", "RecipeScalerEmbed"}
       => output.originalServings = 1
    /\ Returned("getOriginalServings") => output >= 1

\* every quantity on display is the parsed quantity times
\* desiredServings / originalServings
ScaledFromParsed ==
    Mounted
    => /\ Len(output.scaledIngredients) = Len(output.ingredients)
       /\ \A i \in 1..Len(output.ingredients) :
            output.scaledIngredients[i].scaledQuantity
              = RMul(output.ingredients[i].quantity,
                     Rat(output.desiredServings, output.originalServings))

\* with desiredServings back at originalServings the parsed quantities are shown
BackToParsed ==
    Mounted /\ output.desiredServings = output.originalServings
    => \A i \in 1..Len(output.ingredients) :
         output.scaledIngredients[i].scaledQuantity = output.ingredients[i].quantity

\* an event leaves the props and the parsed records as they are
ParsedKept ==
    Mounted
    => /\ output'.ingredients = output.ingredients
       /\ output'.ingredientsText = output.ingredientsText
       /\ output'.originalServings = output.originalServings

(* C16.  Re-scaling never accumulates: after any sequence of increase,        *)
(* decrease and direct-input events in a RecipeScaler the parsed records are  *)
(* those of the first parse, every scaledQuantity on display is the parsed    *)
(* quantity x (desiredServings / originalServings), and with desiredServings  *)
(* back at originalServings the parsed quantities are shown again.            *)
C16_NoAccumulation ==
    /\ [](ScaledFromParsed /\ BackToParsed)
    /\ [](Mounted => output.ingredients = parseIngredients(output.ingredientsText))
    /\ [][ParsedKept]_vars

\* after an event, a recipe for 4 is shown for 3
C16_FourShownForThree ==
    /\ pc = "updated"
    /\ output.originalServings = 4 /\ output.desiredServings = 3
    /\ Len(output.ingredients) = 2
    /\ output.ingredients[1].quantity = Rat(9, 4)
    /\ output.scaledIngredients[1].scaledQuantity = Rat(27, 16)

(* C20.  In a RecipeScaler mounted with originalServings >= 1,                *)
(* desiredServings starts equal to originalServings and stays an integer >= 1 *)
(* after any sequence of decrease, increase and direct-input events (empty,   *)
(* zero, negative and non-numeric input give 1), so that the scale factor     *)
(* given to scaleRecipe is above 0.                                           *)
C20_DesiredServingsPositive ==
    Mounted /\ output.originalServings >= 1
    => /\ pc = "mounted" => output.desiredServings = output.originalServings
       /\ output.desiredServings \in Nat /\ output.desiredServings >= 1
       /\ Rat(output.desiredServings, output.originalServings)[1] > 0

\* a RecipeScaler mounted for 4 shows 1 serving after an event
C20_DownToOne ==
    /\ pc = "updated"
    /\ output.originalServings = 4 /\ output.desiredServings = 1

-----------------------------------------------------------------------------
(* Properties of the unit spellings *)

\* a returned call of parseIngredientLine on "<q> s" or "<q> s <name>", q a
\* quantity token of positive value and s a spelling the registry lists
SpellingLine ==
    /\ Returned("parseIngredientLine") /\ input.shape = "built"
    /\ input.marker = "" /\ input.tail = ""
    /\ input.qty.val # NullNum /\ input.qty.val[1] > 0
    /\ input.unit \in DOMAIN UNIT_ALIASES \cup CanonicalUnits

(* C17.  Every unit spelling the registry lists, of one word or of several    *)
(* (every alias key, 'fl oz', 'fluid ounce' and 'fluid ounces' among them,    *)
(* and every canonical name), is recognised as the unit of an ingredient      *)
(* line: parseIngredientLine("<q> s <name>") and parseIngredientLine("<q> s") *)
(* succeed with unit = normalizeUnit(s).                                      *)
C17_EverySpelling ==
    SpellingLine => output # Null /\ output.unit = normalizeUnit(input.unit)

\* the same of the spellings of one word: this one holds
C17_OneWordSpellings ==
    SpellingLine /\ SingleWord(input.unit)
    => output # Null /\ output.unit = normalizeUnit(input.unit)

\* no line with a spelling of several words gives a record
C17_SeveralWordsFail ==
    SpellingLine /\ ~SingleWord(input.unit) => output = Null

-----------------------------------------------------------------------------
(* Properties of the fractions formatQuantity writes *)

\* the pairs <<n, d>> whose "n/d" is the fraction part of s: all of s, or what
\* follows its last space
FractionParts(s) ==
    {p \in (0..maxDenominator) \X (1..maxDenominator) :
        LET f == NatToString(p[1]) \o "/" \o NatToString(p[2])
        IN  \/ s = f
            \/ /\ Len(s) > Len(f)
               /\ Rest(s, Len(s) - Len(f) + 1) = f
               /\ Ch(s, Len(s) - Len(f)) = " "}

\* the error of the search at denominator d, for the remainder of v
ErrorAt(v, d) ==
    LET r == RSub(v, Num(Floor(v)))
    IN  RAbs(RSub(Rat(Round(RMul(r, Num(d))), d), r))

\* n/d is the pair the search keeps for v: of smallest error, and of smallest
\* denominator among the pairs of that error
KeptPair(v, n, d) ==
    /\ n = Round(RMul(RSub(v, Num(Floor(v))), Num(d)))
    /\ \A other \in 1..maxDenominator : ~RLess(ErrorAt(v, other), ErrorAt(v, d))
    /\ \A smaller \in 1..(d - 1) : RLess(ErrorAt(v, d), ErrorAt(v, smaller))

(* C18.  The pair closestFraction keeps in its search over the denominators   *)
(* 1..16 has the smallest error and, among equal errors, the smallest         *)
(* denominator; therefore every fraction formatQuantity writes is in lowest   *)
(* terms (gcd 1): 0.5 gives "1/2", never "2/4" or "8/16".                     *)
C18_LowestTerms ==
    /\ Returned("formatQuantity") /\ FractionForm(output)
       => /\ FractionParts(output) # {}
          /\ \A p \in FractionParts(output) :
               GCD(p[1], p[2]) = 1 /\ KeptPair(input.quantity, p[1], p[2])
    /\ Returned("formatQuantity") /\ input.quantity = Rat(1, 2) => output = "1/2"

\* a value with equal errors at several denominators has been formatted:
\* 2 1/2 is exact at 2, 4, ..., 16
C18_TwoAndAHalf ==
    /\ Returned("formatQuantity")
    /\ input.quantity = Rat(5, 2) /\ output = "2 1/2"
    /\ ErrorAt(input.quantity, 2) = ErrorAt(input.quantity, 16)

(* C19.  Whenever formatQuantity returns a fraction-form string its fraction  *)
(* is proper and not zero, 1 <= n < d <= 16: never a zero numerator           *)
(* ("2 0/1", "0/1"), never numerator = denominator ("3 1/1").                 *)
C19_ProperFraction ==
    Returned("formatQuantity") /\ FractionForm(output)
    => /\ FractionParts(output) # {}
       /\ \A p \in FractionParts(output) : 1 <= p[1] /\ p[1] < p[2] /\ p[2] <= maxDenominator

\* C19 for the values whose remainder is neither within 0.01 of 0 nor rounds up
\* to a whole unit: this one holds
C19_AwayFromWhole ==
    /\ Returned("formatQuantity") /\ FractionForm(output)
    /\ ~RoundsUp(input.quantity)
    /\ ~RLess(RSub(input.quantity, Num(Floor(input.quantity))), Rat(1, 100))
    => /\ FractionParts(output) # {}
       /\ \A p \in FractionParts(output) : 1 <= p[1] /\ p[1] < p[2] /\ p[2] <= maxDenominator

=============================================================================
